---- MODULE Spec2Model ----
(***************************************************************************)
(* Model of tester.py: the interactive client loop (main) and the single   *)
(* request/print routine (send_url_to_server).                             *)
(*                                                                         *)
(* Text is modelled as a sequence of one-character strings, so that        *)
(* str.strip and str.lower are computed rather than assumed.  A piece of   *)
(* console output is one write to stdout: a sequence of strings.           *)
(***************************************************************************)
EXTENDS Integers, Sequences, FiniteSets, TLC

VARIABLES pc, encoding, stdout, posts, answers, reads

vars == <<pc, encoding, stdout, posts, answers, reads>>

\* Number of input() calls one run of the model follows.
MaxReads == 3

------------------------------------------------------------------------------
(* Characters and the two string methods main uses.                         *)

Whitespace == {" ", "\t", "\n"}

\* A character outside the 8-bit code pages (a snowman).
Snowman == "U+2603"

\* The encodings sys.stdout may have: a UTF-8 console or an 8-bit code page.
Encodings == {"utf-8", "cp1252"}

Min(S) == CHOOSE x \in S : \A y \in S : x <= y

Max(S) == CHOOSE x \in S : \A y \in S : x >= y

\* str.strip() without arguments: leading and trailing whitespace removed.
NoStrip(s) == s

LStripOnly(s) ==
    LET keep == {i \in 1..Len(s) : s[i] \notin Whitespace}
    IN  IF keep = {} THEN <<>> ELSE SubSeq(s, Min(keep), Len(s))

strip(s) ==
    LET keep == {i \in 1..Len(s) : s[i] \notin Whitespace}
    IN  IF keep = {} THEN <<>> ELSE SubSeq(s, Min(keep), Max(keep))

lower_char(c) ==
    CASE c = "A" -> "a"
      [] c = "E" -> "e"
      [] c = "I" -> "i"
      [] c = "T" -> "t"
      [] c = "X" -> "x"
      [] OTHER   -> c

\* str.lower()
lower(s) == [i \in 1..Len(s) |-> lower_char(s[i])]

\* main, line 22: url.lower() == 'exit'
IsExitCaseSensitive(url) == url = <<"e", "x", "i", "t">>

IsExit(url) == lower(url) = <<"e", "x", "i", "t">>

\* print(x) on a stream with the given encoding raises UnicodeEncodeError
\* before writing anything when x holds a character the encoding lacks.
Encodable(s, enc) == \A i \in 1..Len(s) : enc = "utf-8" \/ s[i] # Snowman

------------------------------------------------------------------------------
(* What the operator may type and what the server side may do.              *)

Lines ==
    { <<>>,
      <<" ", " ">>,
      <<"e", "x", "i", "t">>,
      <<"E", "X", "I", "T">>,
      <<"E", "x", "i", "t">>,
      <<" ", "e", "X", "i", "T", "\t">>,
      <<"A">>,
      <<" ", "a", "\t">> }

ResultSafe ==
    <<" ", " ", "R", "e", "s", "u", "l", "t", ":", " ", "s", "a", "f", "e", " ", " ">>

Bodies == { ResultSafe, <<" ", Snowman, "\n">> }

StatusCodes == {200, 201, 404}

\* The outcome of requests.post: an exception, or a response.
Answers ==
    [kind : {"raise"}, e : {"Connection refused", "Name or service not known"},
     status_code : {0}, text : {<<>>}]
    \cup
    [kind : {"response"}, e : {""}, status_code : StatusCodes, text : Bodies]

------------------------------------------------------------------------------
(* Console output.                                                          *)

Banner == <<"Enter a URL to analyze (or type 'exit' to quit):">>

Prompt == <<"URL: ">>

Farewell == <<"Exiting...">>

RetryMessage == <<"Please enter a valid URL.">>

Header == <<"Server Response:">>

Delimiter == [i \in 1..40 |-> "-"]

StatusError(status_code) ==
    <<"Error occurred while sending the request. Response code: ", ToString(status_code)>>

ExceptionMessage(e) == <<"An error occurred: ", e>>

UnicodeEncodeError == "UnicodeEncodeError: codec can't encode character"

------------------------------------------------------------------------------
(* send_url_to_server                                                       *)

\* Line 6: the request sent.
FormRequestLowered(url) ==
    [method |-> "POST", url |-> "http://localhost:4567/analyze",
     data |-> [url |-> lower(url)]]

FormRequest(url) ==
    [method |-> "POST", url |-> "http://localhost:4567/analyze",
     data |-> [url |-> url]]

\* Line 7: response.status_code == 200
IsAny2xx(status_code) == status_code >= 200 /\ status_code < 300

IsOK(status_code) == status_code = 200

\* Lines 6-13, the body of the try: what it printed and the exception, if
\* any, that ended it (a sequence of at most one description).
TryBody(answer, enc) ==
    IF answer.kind = "raise"
    THEN [printed |-> <<>>, exc |-> <<answer.e>>]
    ELSE IF IsOK(answer.status_code)
         THEN IF Encodable(strip(answer.text), enc)
              THEN [printed |-> <<Header, Delimiter, strip(answer.text), Delimiter>>,
                    exc |-> <<>>]
              ELSE [printed |-> <<Header, Delimiter>>, exc |-> <<UnicodeEncodeError>>]
         ELSE [printed |-> <<StatusError(answer.status_code)>>, exc |-> <<>>]

\* Lines 14-15: except Exception as e.
NoHandler(t) == [printed |-> t.printed, raised |-> t.exc # <<>>]

Handler(t) ==
    IF t.exc = <<>>
    THEN [printed |-> t.printed, raised |-> FALSE]
    ELSE [printed |-> t.printed \o <<ExceptionMessage(t.exc[1])>>, raised |-> FALSE]

send_url_to_server(url, answer, enc) ==
    LET h == Handler(TryBody(answer, enc))
    IN  [requests |-> <<FormRequest(url)>>, printed |-> h.printed, raised |-> h.raised]

------------------------------------------------------------------------------
(* main                                                                     *)

\* The state after line 19, before the first prompt.
Init ==
    /\ pc = "AwaitingInput"
    /\ encoding \in Encodings
    /\ stdout = <<Banner>>
    /\ posts = <<>>
    /\ answers = <<>>
    /\ reads = <<>>

\* What input() adds to the history: the line (or end of input) and where
\* the iteration's output and requests start.
Read(eof, line) ==
    [eof |-> eof, line |-> line, out0 |-> Len(stdout), posts0 |-> Len(posts)]

CanRead == pc = "AwaitingInput" /\ Len(reads) < MaxReads

\* Lines 21-24: the trimmed line is "exit" in any casing.
Exit(line) ==
    /\ CanRead
    /\ IsExit(strip(line))
    /\ reads' = Append(reads, Read(FALSE, line))
    /\ stdout' = stdout \o <<Prompt, Farewell>>
    /\ pc' = "Terminated"
    /\ UNCHANGED <<encoding, posts, answers>>

\* Lines 21-26 with a URL that is already in posts skipped.
SendOnce(line, answer) ==
    /\ CanRead
    /\ ~IsExit(strip(line))
    /\ strip(line) # <<>>
    /\ LET r == send_url_to_server(strip(line), answer, encoding)
           seen == \E k \in 1..Len(posts) : posts[k] = r.requests[1]
       IN  /\ reads' = Append(reads, Read(FALSE, line))
           /\ posts' = IF seen THEN posts ELSE posts \o r.requests
           /\ answers' = IF seen THEN answers ELSE Append(answers, answer)
           /\ stdout' = stdout \o <<Prompt>> \o r.printed
           /\ pc' = IF r.raised THEN "Raised" ELSE "AwaitingInput"
    /\ UNCHANGED encoding

\* Lines 21-26: any other non-empty trimmed line is sent.
Send(line, answer) ==
    /\ CanRead
    /\ ~IsExit(strip(line))
    /\ strip(line) # <<>>
    /\ LET r == send_url_to_server(strip(line), answer, encoding)
       IN  /\ reads' = Append(reads, Read(FALSE, line))
           /\ posts' = posts \o r.requests
           /\ answers' = Append(answers, answer)
           /\ stdout' = stdout \o <<Prompt>> \o r.printed
           /\ pc' = IF r.raised THEN "Raised" ELSE "AwaitingInput"
    /\ UNCHANGED encoding

\* Lines 21-28: the trimmed line is empty.
Retry(line) ==
    /\ CanRead
    /\ ~IsExit(strip(line))
    /\ strip(line) = <<>>
    /\ reads' = Append(reads, Read(FALSE, line))
    /\ stdout' = stdout \o <<Prompt, RetryMessage>>
    /\ pc' = "AwaitingInput"
    /\ UNCHANGED <<encoding, posts, answers>>

\* Line 21 at end of input: input() writes the prompt and raises EOFError,
\* which nothing in main catches.
EndOfInput ==
    /\ CanRead
    /\ reads' = Append(reads, Read(TRUE, <<>>))
    /\ stdout' = Append(stdout, Prompt)
    /\ pc' = "Raised"
    /\ UNCHANGED <<encoding, posts, answers>>

Next ==
    \/ \E line \in Lines : Exit(line)
    \/ \E line \in Lines, answer \in Answers : Send(line, answer)
    \/ \E line \in Lines : Retry(line)
    \/ EndOfInput

Spec == Init /\ [][Next]_vars

------------------------------------------------------------------------------
(* Reading the history: what iteration i of the loop wrote and sent.        *)

Iterations == 1..Len(reads)

OutEnd(i) == IF i < Len(reads) THEN reads[i + 1].out0 ELSE Len(stdout)

OutOf(i) == SubSeq(stdout, reads[i].out0 + 1, OutEnd(i))

PostsEnd(i) == IF i < Len(reads) THEN reads[i + 1].posts0 ELSE Len(posts)

PostsOf(i) == SubSeq(posts, reads[i].posts0 + 1, PostsEnd(i))

AnswersOf(i) == SubSeq(answers, reads[i].posts0 + 1, PostsEnd(i))

\* After iteration i the loop prompts again: it is awaiting input, or the
\* next iteration has already started with a prompt.
PromptsAgainAfter(i) ==
    IF i = Len(reads)
    THEN pc = "AwaitingInput"
    ELSE Len(OutOf(i + 1)) >= 1 /\ OutOf(i + 1)[1] = <<"URL: ">>

------------------------------------------------------------------------------
(* The vocabulary of the claims, stated without the model's strip, lower    *)
(* and message definitions.                                                 *)

\* u is line without its leading and trailing whitespace.
TrimOf(u, line) ==
    \E a \in 0..(Len(line) - Len(u)) :
        LET b == Len(line) - Len(u) - a
        IN  /\ \A k \in 1..a : line[k] \in {" ", "\t", "\n"}
            /\ \A k \in (Len(line) - b + 1)..Len(line) : line[k] \in {" ", "\t", "\n"}
            /\ u # <<>> => /\ u[1] \notin {" ", "\t", "\n"}
                           /\ u[Len(u)] \notin {" ", "\t", "\n"}
            /\ u = SubSeq(line, a + 1, Len(line) - b)

\* The line is nothing but whitespace.
BlankLine(line) == \A k \in 1..Len(line) : line[k] \in {" ", "\t", "\n"}

\* The line is e-x-i-t in any casing between whitespace.
ExitLine(line) ==
    \E a \in 0..(Len(line) - 4) :
        /\ \A k \in 1..a : line[k] \in {" ", "\t", "\n"}
        /\ \A k \in (a + 5)..Len(line) : line[k] \in {" ", "\t", "\n"}
        /\ line[a + 1] \in {"e", "E"}
        /\ line[a + 2] \in {"x", "X"}
        /\ line[a + 3] \in {"i", "I"}
        /\ line[a + 4] \in {"t", "T"}

LineRead(i) == ~reads[i].eof

ExitRead(i) == LineRead(i) /\ ExitLine(reads[i].line)

BlankRead(i) == LineRead(i) /\ BlankLine(reads[i].line)

UrlRead(i) == LineRead(i) /\ ~ExitRead(i) /\ ~BlankRead(i)

Dashes40 ==
    <<"-", "-", "-", "-", "-", "-", "-", "-", "-", "-",
      "-", "-", "-", "-", "-", "-", "-", "-", "-", "-",
      "-", "-", "-", "-", "-", "-", "-", "-", "-", "-",
      "-", "-", "-", "-", "-", "-", "-", "-", "-", "-">>

IsErrorMessage(w) ==
    /\ Len(w) >= 1
    /\ w[1] \in {"An error occurred: ",
                 "Error occurred while sending the request. Response code: "}

IsBlockLine(w) == w = <<"Server Response:">> \/ w = Dashes40

ErrorMessagesOf(i) == {k \in 1..Len(OutOf(i)) : IsErrorMessage(OutOf(i)[k])}

BlockStartsOf(i) == {k \in 1..Len(OutOf(i)) : OutOf(i)[k] = <<"Server Response:">>}

------------------------------------------------------------------------------
(* Claims.                                                                  *)

\* C1: every line read whose trimmed value is non-empty and is not "exit" in
\* any casing issues exactly one POST to http://localhost:4567/analyze in its
\* iteration, whose only form field is url, holding the trimmed line.
C1_ExactlyOnePost ==
    \A i \in Iterations :
        UrlRead(i) =>
            /\ Len(PostsOf(i)) = 1
            /\ PostsOf(i)[1].method = "POST"
            /\ PostsOf(i)[1].url = "http://localhost:4567/analyze"
            /\ DOMAIN PostsOf(i)[1].data = {"url"}
            /\ TrimOf(PostsOf(i)[1].data.url, reads[i].line)

C1_Witness ==
    \E i, j \in Iterations :
        /\ i < j
        /\ reads[i].line = <<"A">> /\ Len(PostsOf(i)) = 1
        /\ reads[j].line = <<" ", "a", "\t">> /\ Len(PostsOf(j)) = 1

\* C2: the loop has exactly two states, AwaitingInput and Terminated, and is
\* Terminated exactly when the last thing read was "exit" (trimmed, any
\* casing); after anything else, end of input included, it is AwaitingInput.
C2_TwoStates ==
    /\ pc \in {"AwaitingInput", "Terminated"}
    /\ pc = "Terminated" <=> (reads # <<>> /\ ExitRead(Len(reads)))

\* C3: a line that is "exit" in any casing, padded or not, prints the
\* farewell and ends the loop in that iteration with no request; it is the
\* last iteration, and nothing is written or sent after the farewell.
C3_ExitTerminates ==
    \A i \in Iterations :
        ExitRead(i) =>
            /\ PostsOf(i) = <<>>
            /\ OutOf(i) = << <<"URL: ">>, <<"Exiting...">> >>
            /\ i = Len(reads)
            /\ Len(posts) = reads[i].posts0
            /\ pc = "Terminated"

C3_Witness ==
    /\ Len(reads) = MaxReads
    /\ reads[Len(reads)].line \in { <<"E", "X", "I", "T">>,
                                    <<" ", "e", "X", "i", "T", "\t">> }
    /\ posts # <<>>
    /\ pc = "Terminated"

\* C4: a line that is empty after trimming issues no request, prints the
\* retry message, leaves the number of requests issued unchanged, and the
\* loop prompts again.
C4_BlankRetries ==
    \A i \in Iterations :
        BlankRead(i) =>
            /\ PostsOf(i) = <<>>
            /\ PostsEnd(i) = reads[i].posts0
            /\ OutOf(i) = << <<"URL: ">>, <<"Please enter a valid URL.">> >>
            /\ PromptsAgainAfter(i)

C4_Witness ==
    \E i \in Iterations :
        /\ reads[i].line = <<" ", " ">>
        /\ reads[i].posts0 >= 1
        /\ i < Len(reads)

\* C5: when the HTTP call raises, exactly one error message holding the
\* failure's description is printed, nothing is raised to main, the loop
\* prompts again, and a later iteration behaves as the same line and answer
\* behaved before the failure.
C5_TransportFailureContained ==
    \A i \in Iterations :
        (UrlRead(i) /\ Len(AnswersOf(i)) = 1 /\ AnswersOf(i)[1].kind = "raise") =>
            /\ OutOf(i) = << <<"URL: ">>, <<"An error occurred: ", AnswersOf(i)[1].e>> >>
            /\ PromptsAgainAfter(i)
            /\ \A k, j \in Iterations :
                   (k < i /\ i < j /\ LineRead(k) /\ LineRead(j)
                          /\ reads[k].line = reads[j].line
                          /\ AnswersOf(k) = AnswersOf(j)) =>
                       OutOf(j) = OutOf(k) /\ PostsOf(j) = PostsOf(k)

C5_Witness ==
    /\ Len(reads) = 3
    /\ UrlRead(1) /\ UrlRead(2) /\ UrlRead(3)
    /\ reads[1].line = reads[3].line
    /\ answers[1] = answers[3] /\ answers[1].status_code = 200
    /\ answers[2].kind = "raise"
    /\ pc = "AwaitingInput"

\* C6: every issued request produces at most one printed outcome, a response
\* block or an error message, never both, also when a failure is raised
\* after the response block has started printing.
C6_AtMostOneOutcome ==
    \A i \in Iterations :
        PostsOf(i) # <<>> =>
            Cardinality(ErrorMessagesOf(i)) + Cardinality(BlockStartsOf(i)) <= 1

\* C7: on status 200 the delimiter of 40 dashes, the trimmed body and the
\* same delimiter are printed in that order, and no error message.
C7_OkPrintsBlock ==
    \A i \in Iterations :
        (UrlRead(i) /\ Len(AnswersOf(i)) = 1 /\ AnswersOf(i)[1].kind = "response"
                    /\ AnswersOf(i)[1].status_code = 200) =>
            /\ ErrorMessagesOf(i) = {}
            /\ LET n == Len(OutOf(i))
               IN  /\ n >= 3
                   /\ OutOf(i)[n - 2] = Dashes40
                   /\ TrimOf(OutOf(i)[n - 1], AnswersOf(i)[1].text)
                   /\ OutOf(i)[n] = Dashes40

\* C8: on any status other than 200, other 2xx codes included, one error
\* message holding the numeric status code is printed, neither the body nor
\* a delimiter line is, and the loop prompts again.
C8_OtherStatusIsError ==
    \A i \in Iterations :
        (UrlRead(i) /\ Len(AnswersOf(i)) = 1 /\ AnswersOf(i)[1].kind = "response"
                    /\ AnswersOf(i)[1].status_code # 200) =>
            /\ Len(OutOf(i)) = 2
            /\ IsErrorMessage(OutOf(i)[2])
            /\ \E k \in 1..Len(OutOf(i)[2]) :
                   OutOf(i)[2][k] = ToString(AnswersOf(i)[1].status_code)
            /\ \A k \in 1..Len(OutOf(i)) :
                   /\ ~IsBlockLine(OutOf(i)[k])
                   /\ ~TrimOf(OutOf(i)[k], AnswersOf(i)[1].text)
                   /\ OutOf(i)[k] # AnswersOf(i)[1].text
            /\ PromptsAgainAfter(i)

C8_Witness ==
    \E i, j \in Iterations :
        /\ Len(AnswersOf(i)) = 1 /\ AnswersOf(i)[1].status_code = 201
        /\ Len(AnswersOf(j)) = 1 /\ AnswersOf(j)[1].status_code = 404
        /\ i < j /\ j < Len(reads)

\* C9: no caching or deduplication: the number of requests issued equals the
\* number of non-empty, non-exit lines read, each such line has its own
\* request and answer, and what an iteration prints is decided by the answer
\* to its own request alone.
C9_NoDeduplication ==
    /\ Len(posts) = Cardinality({i \in Iterations : UrlRead(i)})
    /\ Len(answers) = Len(posts)
    /\ \A i \in Iterations : UrlRead(i) => Len(PostsOf(i)) = 1
    /\ \A i, j \in Iterations :
           (UrlRead(i) /\ UrlRead(j) /\ AnswersOf(i) = AnswersOf(j)) =>
               OutOf(i) = OutOf(j)

C9_Witness ==
    \E i, j \in Iterations :
        /\ i < j
        /\ UrlRead(i) /\ UrlRead(j)
        /\ reads[i].line = reads[j].line
        /\ Len(posts) >= 2
        /\ PostsOf(i) = PostsOf(j)
        /\ OutOf(i) # OutOf(j)

\* C10 as stated: the url field holds the line exactly as the operator
\* typed it.
C10_RawLine ==
    \A i \in Iterations :
        PostsOf(i) # <<>> => PostsOf(i)[1].data.url = reads[i].line

\* C10 as amended: the url field holds the line with its leading and
\* trailing whitespace removed and nothing else changed; it is the line as
\* typed only when the line has no surrounding whitespace.
C10_TrimmedLine ==
    \A i \in Iterations :
        PostsOf(i) # <<>> =>
            LET field == PostsOf(i)[1].data.url
            IN  /\ TrimOf(field, reads[i].line)
                /\ field = reads[i].line <=> /\ reads[i].line[1] \notin {" ", "\t", "\n"}
                                             /\ reads[i].line[Len(reads[i].line)]
                                                    \notin {" ", "\t", "\n"}

C10_Witness ==
    \E i \in Iterations :
        /\ reads[i].line = <<" ", "a", "\t">>
        /\ Len(PostsOf(i)) = 1
        /\ PostsOf(i)[1].data.url = <<"a">>

====
